---- MODULE Spec2Model ----
(***************************************************************************)
(* voila: an embedded key-value store backed by one append-only file.      *)
(* The model follows src/db.go: the DB struct (pages, f, lastOffset), the  *)
(* record layout keySize(8) valueSize(8) key value, the positioned write   *)
(* of Insert, the seek-and-read of Get and the replay of loadFromStorage.  *)
(* Files are byte sequences; a byte is a number in 0..255.                 *)
(***************************************************************************)
EXTENDS Integers, Sequences, FiniteSets, TLC

\* ------------------------------------------------------------ bounds
\* Positioned writes on an open handle (whole or torn) in one behaviour.
MaxInserts == 2
\* Positioned writes that fail part-way in one behaviour.
MaxFail == 1
\* Opens one instance does.
MaxOpens == 2
\* Records in a file handed to the replay loop on its own.
MaxRecords == 2

\* ------------------------------------------------------------ inputs
FileNames == {"A", "B"}
\* Keys are strings, that is byte sequences; the empty key is legal.
KeySet == {<< >>, <<97>>}
\* Values: the empty value and a binary one, zero bytes and then 0xFF.
LongValue == [i \in 1..18 |-> IF i = 18 THEN 255 ELSE 0]
ValueSet == {<< >>, LongValue}
\* What a file may hold before the first call: nothing, or the 16 bytes of a
\* header that declares a key of 2^48 bytes and no value (a record cut short
\* after its header).
HugeKeyHeader == <<0, 0, 0, 0, 0, 0, 1, 0>> \o <<0, 0, 0, 0, 0, 0, 0, 0>>
FileContents == {<< >>, HugeKeyHeader}
\* Where a write of n bytes that fails may have stopped: inside the keySize
\* field, inside the valueSize field, after the header, one byte short.
TornAt(n) == {4, 12, 16, n - 1}

\* ------------------------------------------------------------ state
VARIABLES
    files,       \* the file system: file name -> content (bytes)
    pages,       \* DB.pages: key -> Page
    f,           \* DB.f: "nil" or the name of the file the handle is on
    closed,      \* whether the os.File behind DB.f has been closed
    lastOffset,  \* DB.lastOffset
    loopOffset,  \* loadFromStorage's local offset while the loop runs, else 0
    pos,         \* the file offset of the handle behind DB.f, moved by Seek and Read
    ret,         \* the last call and what it returned
    writes,      \* positioned writes on an open handle so far
    fails,       \* failed positioned writes so far
    nOpens,      \* history: Opens this instance has done
    latest,      \* history: key -> value of the successful Inserts since the last Open
    sessKeys,    \* history: keys whose entry replay or Insert set since the last Open
    sess,        \* history: the session since the last Open: the file, whether it
                 \* was empty then, whether every Insert succeeded, whether bytes
                 \* of an incomplete record were found at Open or left by a failed
                 \* Insert, and the largest end offset of the records appended
    snap,        \* history: keys and values a session showed at Close, "clean" if
                 \* it began on an empty file and had only successful Inserts,
                 \* "torn" if a new engine met bytes of an incomplete record;
                 \* kept until the next call other than New and Open
    failedAt     \* history: cursor of a failed Insert no successful Insert has
                 \* followed since, or -1

vars == <<files, pages, f, closed, lastOffset, loopOffset, pos, ret, writes, fails, nOpens,
          latest, sessKeys, sess, snap, failedAt>>

HeaderField == 8
HeaderSize == 16

Max(a, b) == IF a >= b THEN a ELSE b

\* ------------------------------------------------------------ codec
\* binary.LittleEndian.PutUint64 of a length n (n < 2^24 for every length
\* the model builds, so the five high bytes are 0).
PutUint64(n) ==
    << n % 256, (n \div 256) % 256, (n \div 65536) % 256, 0, 0, 0, 0, 0 >>

\* binary.LittleEndian.Uint64 of 8 bytes. The value is given in two parts:
\* whether it is below 2^24 and, then, the number itself.
Uint64Small(b) == \A i \in 4..8 : b[i] = 0
Uint64(b) == b[1] + 256 * b[2] + 65536 * b[3]
\* make([]byte, n) ends the process for n of 2^48 (the runtime's maxAlloc on
\* 64-bit builds) or more, by the len-out-of-range panic or by the refused
\* allocation: bytes 7 and 8 of the little-endian form. Smaller buffers are
\* taken to be allocated.
MakePanics(b) == b[7] # 0 \/ b[8] # 0

\* The record Insert assembles in pageBuffer.
EncodeSwapped(key, value) ==
    PutUint64(Len(key)) \o key \o PutUint64(Len(value)) \o value
Encode(key, value) ==
    PutUint64(Len(key)) \o PutUint64(Len(value)) \o key \o value

\* ------------------------------------------------------------ file I/O
\* bytes [off+1 .. off+n] of a file (0-based offset off)
Slice(file, off, n) == [i \in 1..n |-> file[off + i]]

\* os.File.ReadAt(buf, off) returns a nil error iff the buffer is filled;
\* an empty buffer is always filled.
ReadAtOk(file, n, off) == n = 0 \/ off + n <= Len(file)

\* os.File.WriteAt(b, off) having written the bytes b: a gap between the end
\* of the file and off reads as zero bytes. Nothing written, nothing changed.
WriteAt(file, b, off) ==
    IF Len(b) = 0 THEN file
    ELSE [i \in 1..Max(Len(file), off + Len(b)) |->
            IF i > off /\ i <= off + Len(b) THEN b[i - off]
            ELSE IF i <= Len(file) THEN file[i]
            ELSE 0]

\* db.f.WriteAt(pageBuffer, int64(db.lastOffset)): the write is positioned at
\* the cursor and does not use the offset of the handle.
WriteOffsetAtPos(cursor, position) == position
WriteOffset(cursor, position) == cursor

\* ------------------------------------------------------------ index
NoPage == [keySize |-> 0, valueSize |-> 0, offset |-> 0, size |-> 0]
EmptyIndex == [k \in {} |-> NoPage]

\* db.pages[key] = page
SetPageKeepFirst(index, key, page) ==
    [k \in DOMAIN index \cup {key} |->
        IF k \in DOMAIN index THEN index[k] ELSE page]
SetPage(index, key, page) ==
    [k \in DOMAIN index \cup {key} |-> IF k = key THEN page ELSE index[k]]

\* The Page Insert builds for a record written at cursor.
InsertPageNoHeader(key, value, cursor) ==
    [keySize |-> Len(key), valueSize |-> Len(value),
     offset |-> cursor, size |-> Len(key) + Len(value)]
InsertPage(key, value, cursor) ==
    [keySize |-> Len(key), valueSize |-> Len(value),
     offset |-> cursor, size |-> Len(key) + Len(value) + HeaderSize]

\* Insert returns on the error of WriteAt, before it touches the index and
\* the cursor; n is the number of bytes WriteAt reported.
OnWriteErrorIndexFirst(index, cursor, key, page, n) ==
    [pages |-> SetPage(index, key, page), lastOffset |-> cursor + n]
OnWriteError(index, cursor, key, page, n) ==
    [pages |-> index, lastOffset |-> cursor]

\* db.lastOffset += uint64(len(pageBuffer))
AdvanceToLength(cursor, n) == n
Advance(cursor, n) == cursor + n

\* ------------------------------------------------------------ replay
\* The fourth read of an iteration: db.f.ReadAt(valueBuf, offset).
ValueReadSkipped(file, valueSize, offset) == TRUE
ValueReadOk(file, valueSize, offset) == ReadAtOk(file, valueSize, offset)

\* loadFromStorage: the loop from a scan offset, with the index and the
\* cursor as they are when the iteration starts. The result holds the index,
\* the cursor, the keys the loop set, and whether make() panicked.
RECURSIVE loadFromStorage(_, _, _, _, _)
loadFromStorage(file, offset, index, cursor, touched) ==
    LET stop == [pages |-> index, lastOffset |-> cursor,
                 touched |-> touched, err |-> "ok"]
        crash == [stop EXCEPT !.err = "panic"]
    IN
    IF ~ReadAtOk(file, HeaderField, offset) THEN stop
    ELSE IF ~ReadAtOk(file, HeaderField, offset + HeaderField) THEN stop
    ELSE
      LET keySizeBuf == Slice(file, offset, HeaderField)
          valueSizeBuf == Slice(file, offset + HeaderField, HeaderField)
      IN
      IF MakePanics(keySizeBuf) \/ MakePanics(valueSizeBuf) THEN crash
      ELSE IF ~Uint64Small(keySizeBuf) THEN stop
      ELSE IF ~ReadAtOk(file, Uint64(keySizeBuf), offset + HeaderSize) THEN stop
      ELSE IF ~Uint64Small(valueSizeBuf) THEN stop
      ELSE
        LET keySize == Uint64(keySizeBuf)
            valueSize == Uint64(valueSizeBuf)
            key == Slice(file, offset + HeaderSize, keySize)
            next == offset + HeaderSize + keySize + valueSize
            size == keySize + valueSize + HeaderField + HeaderField
            page == [keySize |-> keySize, valueSize |-> valueSize,
                     offset |-> next - size, size |-> size]
        IN
        IF ~ValueReadOk(file, valueSize, offset + HeaderSize + keySize) THEN stop
        ELSE loadFromStorage(file, next, SetPage(index, key, page), next,
                             touched \cup {key})

\* ------------------------------------------------------------ reads
\* valueOffset := page.offset + 8 + 8 + page.keySize
ValueOffsetNoKey(page) == page.offset + HeaderField + HeaderField
ValueOffset(page) == page.offset + HeaderField + HeaderField + page.keySize

\* What Get(key) returns in a state: the error and the value.
GetResultNoLookupCheck(fs, index, handle, isClosed, key) ==
    IF handle = "nil" THEN [err |-> "not opened", value |-> << >>]
    ELSE IF isClosed THEN [err |-> "seek failed", value |-> << >>]
    ELSE
      LET page == IF key \in DOMAIN index THEN index[key] ELSE NoPage
          valueOffset == ValueOffset(page)
      IN
      IF page.valueSize = 0 \/ valueOffset + page.valueSize <= Len(fs[handle])
      THEN [err |-> "ok", value |-> Slice(fs[handle], valueOffset, page.valueSize)]
      ELSE [err |-> "read failed", value |-> << >>]
GetResultShortRead(fs, index, handle, isClosed, key) ==
    IF handle = "nil" THEN [err |-> "not opened", value |-> << >>]
    ELSE IF key \notin DOMAIN index THEN [err |-> "key not found", value |-> << >>]
    ELSE IF isClosed THEN [err |-> "seek failed", value |-> << >>]
    ELSE
      LET page == index[key]
          valueOffset == ValueOffset(page)
      IN
      [err |-> "ok",
       value |-> [i \in 1..page.valueSize |->
                     IF valueOffset + i <= Len(fs[handle])
                     THEN fs[handle][valueOffset + i] ELSE 0]]
GetResult(fs, index, handle, isClosed, key) ==
    IF handle = "nil" THEN [err |-> "not opened", value |-> << >>]
    ELSE IF key \notin DOMAIN index THEN [err |-> "key not found", value |-> << >>]
    ELSE IF isClosed THEN [err |-> "seek failed", value |-> << >>]
    ELSE
      LET page == index[key]
          valueOffset == ValueOffset(page)
      IN
      IF page.valueSize = 0 \/ valueOffset + page.valueSize <= Len(fs[handle])
      THEN [err |-> "ok", value |-> Slice(fs[handle], valueOffset, page.valueSize)]
      ELSE [err |-> "read failed", value |-> << >>]

\* The offset of the handle after Get(key): Seek sets it to the value offset
\* and the read moves it over the bytes it got.
GetPos(fs, index, handle, isClosed, key, position) ==
    IF handle = "nil" \/ key \notin DOMAIN index \/ isClosed THEN position
    ELSE
      LET page == index[key]
          valueOffset == ValueOffset(page)
          got == IF Len(fs[handle]) - valueOffset < page.valueSize
                 THEN Max(0, Len(fs[handle]) - valueOffset)
                 ELSE page.valueSize
      IN valueOffset + got

\* Exists(key)
ExistsResult(index, key) == key \in DOMAIN index

\* Keys(): one element per map entry, in the order the map iteration takes.
KeysResults(index) ==
    {s \in [1..Cardinality(DOMAIN index) -> DOMAIN index] :
        \A k \in DOMAIN index : \E i \in DOMAIN s : s[i] = k}

IsOpen == f # "nil" /\ ~closed
Call(op, key, value, err) == [op |-> op, key |-> key, value |-> value, err |-> err]
NoSession == [file |-> "nil", fromEmpty |-> FALSE, allOk |-> FALSE, torn |-> FALSE,
              appended |-> 0]
NoSnap == [file |-> "nil", kind |-> "none"]
Running == ret.err # "panic"

\* ------------------------------------------------------------ operations
Init ==
    /\ files \in [FileNames -> FileContents]
    /\ files["A"] = << >>
    /\ pages = EmptyIndex
    /\ f = "nil"
    /\ closed = FALSE
    /\ lastOffset = 0
    /\ loopOffset = 0
    /\ pos = 0
    /\ ret = Call("New", << >>, << >>, "ok")
    /\ writes = 0
    /\ fails = 0
    /\ nOpens = 0
    /\ latest = EmptyIndex
    /\ sessKeys = {}
    /\ sess = NoSession
    /\ snap = NoSnap
    /\ failedAt = -1

\* New(): a new instance (also: the process was started again).
New ==
    /\ pages' = EmptyIndex
    /\ f' = "nil"
    /\ closed' = FALSE
    /\ lastOffset' = 0
    /\ pos' = 0
    /\ ret' = Call("New", << >>, << >>, "ok")
    /\ nOpens' = 0
    /\ latest' = EmptyIndex
    /\ sessKeys' = {}
    /\ sess' = NoSession
    /\ failedAt' = -1
    /\ UNCHANGED <<files, loopOffset, writes, fails, snap>>

\* Open(filename): a new handle on the file, then loadFromStorage from 0.
Open(name) ==
    /\ Running
    /\ nOpens < MaxOpens
    /\ LET r == loadFromStorage(files[name], 0, pages, lastOffset, {})
       IN /\ pages' = r.pages
          /\ lastOffset' = r.lastOffset
          /\ sessKeys' = r.touched
          /\ ret' = Call("Open", << >>, << >>, r.err)
          /\ sess' = [file |-> name, fromEmpty |-> files[name] = << >>,
                      allOk |-> TRUE, torn |-> Len(files[name]) > r.lastOffset,
                      appended |-> 0]
    /\ f' = name
    /\ pos' = 0
    /\ snap' = IF nOpens = 0 /\ snap.file = name THEN snap ELSE NoSnap
    /\ closed' = FALSE
    /\ nOpens' = nOpens + 1
    /\ latest' = EmptyIndex
    /\ failedAt' = -1
    /\ UNCHANGED <<files, loopOffset, writes, fails>>

\* Close(): closes the handle if there is one; the handle stays in db.f.
Close ==
    /\ Running
    /\ ret' = Call("Close", << >>, << >>,
                   IF f # "nil" /\ closed THEN "already closed" ELSE "ok")
    /\ closed' = (f # "nil")
    /\ LET clean == sess.fromEmpty /\ sess.allOk /\ latest # EmptyIndex
           torn == sess.torn /\ nOpens = 1
       IN snap' = IF IsOpen /\ (clean \/ torn)
                  THEN [file |-> f,
                        kind |-> IF clean THEN "clean" ELSE "torn",
                        keys |-> DOMAIN pages,
                        get |-> [k \in KeySet |->
                                    GetResult(files, pages, f, closed, k)]]
                  ELSE NoSnap
    /\ UNCHANGED <<files, pages, f, lastOffset, loopOffset, pos, writes, fails, nOpens, latest, sessKeys,
                   sess, failedAt>>

\* Insert(key, value)
Insert(key, value) ==
    /\ Running
    /\ snap' = NoSnap
    /\ UNCHANGED <<f, closed, loopOffset, pos, nOpens>>
    /\ LET pageBuffer == Encode(key, value) IN
       \/ \* db.f == nil
          /\ f = "nil"
          /\ ret' = Call("Insert", key, value, "not opened")
          /\ UNCHANGED <<files, pages, lastOffset, writes, fails, latest, sessKeys,
                         sess, failedAt>>
       \/ \* WriteAt on a closed handle: an error, nothing written
          /\ f # "nil" /\ closed
          /\ ret' = Call("Insert", key, value, "write failed")
          /\ UNCHANGED <<files, pages, lastOffset, writes, fails, latest, sessKeys,
                         sess, failedAt>>
       \/ \* WriteAt wrote n bytes, fewer than asked for, and returned an error
          /\ IsOpen
          /\ writes < MaxInserts
          /\ writes' = writes + 1
          /\ fails < MaxFail
          /\ fails' = fails + 1
          /\ \E n \in (0..(Len(pageBuffer) - 1)) \cap TornAt(Len(pageBuffer)) :
                /\ files' = [files EXCEPT
                              ![f] = WriteAt(@, SubSeq(pageBuffer, 1, n),
                                             WriteOffset(lastOffset, pos))]
                /\ LET r == OnWriteError(pages, lastOffset, key,
                                         InsertPage(key, value, lastOffset), n)
                   IN /\ pages' = r.pages
                      /\ lastOffset' = r.lastOffset
          /\ ret' = Call("Insert", key, value, "write failed")
          /\ sess' = [sess EXCEPT !.allOk = FALSE, !.torn = TRUE]
          /\ failedAt' = lastOffset
          /\ UNCHANGED <<latest, sessKeys>>
       \/ \* WriteAt wrote the whole record
          /\ IsOpen
          /\ writes < MaxInserts
          /\ writes' = writes + 1
          /\ files' = [files EXCEPT
                        ![f] = WriteAt(@, pageBuffer, WriteOffset(lastOffset, pos))]
          /\ pages' = SetPage(pages, key, InsertPage(key, value, lastOffset))
          /\ lastOffset' = Advance(lastOffset, Len(pageBuffer))
          /\ ret' = Call("Insert", key, value, "ok")
          /\ latest' = [k \in DOMAIN latest \cup {key} |->
                           IF k = key THEN value ELSE latest[k]]
          /\ sessKeys' = sessKeys \cup {key}
          /\ sess' = [sess EXCEPT
                        !.appended = Max(@, lastOffset + Len(pageBuffer))]
          /\ failedAt' = -1
          /\ UNCHANGED fails

\* Get(key)
Get(key) ==
    /\ Running
    /\ LET r == GetResult(files, pages, f, closed, key)
       IN ret' = Call("Get", key, r.value, r.err)
    /\ pos' = GetPos(files, pages, f, closed, key, pos)
    /\ snap' = NoSnap
    /\ UNCHANGED <<files, pages, f, closed, lastOffset, loopOffset, writes, fails, nOpens,
                   latest, sessKeys, sess, failedAt>>

\* Exists(key)
Exists(key) ==
    /\ Running
    /\ ret' = Call("Exists", key, ExistsResult(pages, key), "ok")
    /\ snap' = NoSnap
    /\ UNCHANGED <<files, pages, f, closed, lastOffset, loopOffset, pos, writes, fails, nOpens,
                   latest, sessKeys, sess, failedAt>>

\* Keys()
Keys ==
    /\ Running
    /\ \E s \in KeysResults(pages) : ret' = Call("Keys", << >>, s, "ok")
    /\ snap' = NoSnap
    /\ UNCHANGED <<files, pages, f, closed, lastOffset, loopOffset, pos, writes, fails, nOpens,
                   latest, sessKeys, sess, failedAt>>

Next ==
    \/ New
    \/ \E name \in FileNames : Open(name)
    \/ Close
    \/ \E key \in KeySet, value \in ValueSet : Insert(key, value)
    \/ \E key \in KeySet : Get(key)
    \/ \E key \in KeySet : Exists(key)
    \/ Keys

Spec == Init /\ [][Next]_vars

\* ------------------------------------------------------------ the replay loop
\* The loop of loadFromStorage taken one iteration at a time, as Open runs it
\* on a new handle: ret.err is "running" until the loop returns or make()
\* panics.
Record(kv) == Encode(kv[1], kv[2])
RECURSIVE Concats(_)
Concats(n) ==
    IF n = 0 THEN {<< >>}
    ELSE LET shorter == Concats(n - 1)
         IN shorter \cup {file \o Record(kv) :
                             file \in shorter, kv \in KeySet \X ValueSet}
Prefixes(file) == {SubSeq(file, 1, n) : n \in 0..Len(file)}
\* Files of up to MaxRecords records, whole or cut at any byte, and the header
\* that declares a key of 2^48 bytes.
ReplayFiles == UNION {Prefixes(file) : file \in Concats(MaxRecords)} \cup {HugeKeyHeader}
\* The index and the cursor Open starts the loop with: those of a new
\* instance, or those a used instance has kept.
UsedIndex == SetPage(EmptyIndex, <<97>>, InsertPage(<<97>>, LongValue, 0))
StartStates ==
    {[pages |-> EmptyIndex, lastOffset |-> 0],
     [pages |-> UsedIndex, lastOffset |-> Len(Encode(<<97>>, LongValue))]}

ReplayInit ==
    /\ files \in [FileNames -> ReplayFiles]
    /\ files["B"] = << >>
    /\ f = "A"
    /\ closed = FALSE
    /\ \E st \in StartStates : pages = st.pages /\ lastOffset = st.lastOffset
    /\ loopOffset = 0
    /\ pos = 0
    /\ ret = Call("Open", << >>, << >>, "running")
    /\ writes = 0
    /\ fails = 0
    /\ nOpens = 1
    /\ latest = EmptyIndex
    /\ sessKeys = {}
    /\ sess = NoSession
    /\ snap = NoSnap
    /\ failedAt = -1

\* One pass through the body of the for loop.
Iteration ==
    /\ ret.op = "Open" /\ ret.err = "running"
    /\ LET file == files[f]
           return(read) ==
               /\ ret' = [ret EXCEPT !.err = "ok"]
               /\ loopOffset' = loopOffset + read
               /\ UNCHANGED <<pages, lastOffset>>
       IN
       IF ~ReadAtOk(file, HeaderField, loopOffset) THEN return(0)
       ELSE IF ~ReadAtOk(file, HeaderField, loopOffset + HeaderField)
       THEN return(HeaderField)
       ELSE
         LET keySizeBuf == Slice(file, loopOffset, HeaderField)
             valueSizeBuf == Slice(file, loopOffset + HeaderField, HeaderField)
         IN
         IF MakePanics(keySizeBuf) \/ MakePanics(valueSizeBuf)
         THEN /\ ret' = [ret EXCEPT !.err = "panic"]
              /\ loopOffset' = loopOffset + HeaderSize
              /\ UNCHANGED <<pages, lastOffset>>
         ELSE IF ~Uint64Small(keySizeBuf) THEN return(HeaderSize)
         ELSE IF ~ReadAtOk(file, Uint64(keySizeBuf), loopOffset + HeaderSize)
         THEN return(HeaderSize)
         ELSE IF ~Uint64Small(valueSizeBuf)
         THEN return(HeaderSize + Uint64(keySizeBuf))
         ELSE
           LET keySize == Uint64(keySizeBuf)
               valueSize == Uint64(valueSizeBuf)
               key == Slice(file, loopOffset + HeaderSize, keySize)
               next == loopOffset + HeaderSize + keySize + valueSize
               size == keySize + valueSize + HeaderField + HeaderField
           IN
           IF ~ValueReadOk(file, valueSize, loopOffset + HeaderSize + keySize)
           THEN return(HeaderSize + keySize)
           ELSE /\ pages' = SetPage(pages, key,
                                    [keySize |-> keySize, valueSize |-> valueSize,
                                     offset |-> next - size, size |-> size])
                /\ lastOffset' = next
                /\ loopOffset' = next
                /\ UNCHANGED ret
    /\ UNCHANGED <<files, f, closed, pos, writes, fails, nOpens, latest, sessKeys,
                   sess, snap, failedAt>>

ReplayNext == Iteration

\* The loop is straight-line code of a running process: it takes its next
\* iteration.
ReplaySpec == ReplayInit /\ [][ReplayNext]_vars /\ WF_vars(Iteration)

\* ------------------------------------------------------------ properties
\* What Get(key) returns in the current state.
GetNow(key) == GetResult(files, pages, f, closed, key)
Found(value) == [err |-> "ok", value |-> value]

\* C1 (round trip): right after a successful Insert(k, v), Get(k) returns v,
\* the same bytes in the same number, and no error; k and v may be empty and
\* v may hold any byte values.
C1_RoundTrip ==
    (ret.op = "Insert" /\ ret.err = "ok") => GetNow(ret.key) = Found(ret.value)

\* The empty key with the binary value, inserted behind an earlier record.
C1_Witness ==
    /\ ret.op = "Insert" /\ ret.err = "ok"
    /\ ret.key = << >> /\ ret.value = LongValue
    /\ pages[ret.key].offset > 0
    /\ GetNow(ret.key) = Found(LongValue)

\* C2 (shadowing): on an open engine, Get(k) returns the value of the most
\* recent successful Insert of k since the Open, for every key inserted, and
\* every result of Keys() holds k exactly once.
C2_Shadowing ==
    IsOpen =>
        \A k \in DOMAIN latest :
            /\ GetNow(k) = Found(latest[k])
            /\ \A s \in KeysResults(pages) :
                   Cardinality({i \in DOMAIN s : s[i] = k}) = 1

\* Key "a" inserted with the binary value at offset 0 and then with the empty
\* value: both records are in the file, Get returns the second.
C2_Witness ==
    /\ IsOpen
    /\ ret.op = "Insert" /\ ret.err = "ok"
    /\ ret.key = <<97>> /\ ret.value = << >>
    /\ Len(files[f]) >= Len(Encode(<<97>>, LongValue))
    /\ SubSeq(files[f], 1, Len(Encode(<<97>>, LongValue))) = Encode(<<97>>, LongValue)
    /\ pages[<<97>>].offset = Len(Encode(<<97>>, LongValue))
    /\ GetNow(<<97>>) = Found(<< >>)

\* ---- the complete records of a file, read off its bytes
HeaderAt(file, o) == o + HeaderSize <= Len(file)
KeyLenAt(file, o) == Uint64(Slice(file, o, HeaderField))
ValueLenAt(file, o) == Uint64(Slice(file, o + HeaderField, HeaderField))
LengthsFit(file, o) ==
    /\ Uint64Small(Slice(file, o, HeaderField))
    /\ Uint64Small(Slice(file, o + HeaderField, HeaderField))
    /\ o + HeaderSize + KeyLenAt(file, o) + ValueLenAt(file, o) <= Len(file)
CompleteAt(file, o) == HeaderAt(file, o) /\ LengthsFit(file, o)
RecordEnd(file, o) == o + HeaderSize + KeyLenAt(file, o) + ValueLenAt(file, o)
KeyAt(file, o) == Slice(file, o + HeaderSize, KeyLenAt(file, o))
ValueAt(file, o) ==
    Slice(file, o + HeaderSize + KeyLenAt(file, o), ValueLenAt(file, o))
\* offsets of the complete records from offset o on, in ascending order
RECURSIVE RecordOffsets(_, _)
RecordOffsets(file, o) ==
    IF CompleteAt(file, o)
    THEN <<o>> \o RecordOffsets(file, RecordEnd(file, o))
    ELSE << >>
Range(s) == {s[i] : i \in DOMAIN s}
OffsetsOf(file, k) == {o \in Range(RecordOffsets(file, 0)) : KeyAt(file, o) = k}
MaxOf(S) == CHOOSE x \in S : \A y \in S : y <= x
\* the offset at which the complete records of the file end
EndOfRecords(file) ==
    LET offs == RecordOffsets(file, 0)
    IN IF offs = << >> THEN 0 ELSE RecordEnd(file, offs[Len(offs)])

\* C3 (persistence): a session that began on an empty file and had only
\* successful Inserts is closed; a new engine that opens the same file has the
\* key set the closed engine had, and Get returns for every key what it
\* returned before the Close.
C3_Persistence ==
    (ret.op = "Open" /\ ret.err = "ok" /\ nOpens = 1 /\ snap.file = f
     /\ snap.kind = "clean") =>
        /\ DOMAIN pages = snap.keys
        /\ \A k \in KeySet : ExistsResult(pages, k) = (k \in snap.keys)
        /\ \A k \in KeySet : GetNow(k) = snap.get[k]

\* C4 (replay is latest-wins): after Open, for every key that has complete
\* records in the file, the index entry points to the one at the highest
\* offset and Get returns that record's value.
C4_LatestWins ==
    (ret.op = "Open" /\ ret.err = "ok") =>
        \A k \in KeySet :
            OffsetsOf(files[f], k) # {} =>
                /\ k \in DOMAIN pages
                /\ pages[k].offset = MaxOf(OffsetsOf(files[f], k))
                /\ GetNow(k) = Found(ValueAt(files[f], MaxOf(OffsetsOf(files[f], k))))

\* A new engine has opened a file that holds two records of one key with
\* different values; Get returns the value of the second.
C4_Witness ==
    /\ ret.op = "Open" /\ ret.err = "ok" /\ nOpens = 1
    /\ \E k \in KeySet :
          /\ Cardinality(OffsetsOf(files[f], k)) = 2
          /\ \E o \in OffsetsOf(files[f], k) :
                /\ o < pages[k].offset
                /\ ValueAt(files[f], o) # GetNow(k).value

\* C5 (unopened or closed engine): Insert and Get on an engine that has no
\* open file, never opened or closed since, return the "database not opened"
\* error.
C5_NotOpen ==
    (ret.op \in {"Insert", "Get"} /\ ~IsOpen) => ret.err = "not opened"

\* C6 (a failed Insert is atomic): an Insert whose positioned write fails
\* returns the write error and leaves every index entry and the cursor as they
\* were; the next successful Insert is written at that same cursor.
C6_FailedInsertAtomic ==
    [][ /\ (ret'.op = "Insert" /\ ret'.err = "write failed") =>
              (pages' = pages /\ lastOffset' = lastOffset)
        /\ (ret'.op = "Insert" /\ ret'.err = "ok" /\ failedAt >= 0) =>
              pages'[ret'.key].offset = failedAt
      ]_vars

\* A positioned write on an open engine failed part-way: its bytes lie in the
\* file from the cursor on, and the index holds an earlier record.
C6_Witness ==
    /\ ret.op = "Insert" /\ ret.err = "write failed"
    /\ IsOpen
    /\ failedAt = lastOffset
    /\ Len(files[f]) > lastOffset
    /\ DOMAIN pages # {}

\* C7 (index invariant): on an open engine every index entry under key k
\* covers one complete record of the file: recordSize = 16 + keyLength +
\* valueLength, the record ends within the file, its header holds the entry's
\* keyLength and valueLength, and its key bytes are k.
EntryMatchesFile(file, k, page) ==
    /\ page.size = HeaderSize + page.keySize + page.valueSize
    /\ page.keySize = Len(k)
    /\ page.offset + page.size <= Len(file)
    /\ Slice(file, page.offset, HeaderField) = PutUint64(page.keySize)
    /\ Slice(file, page.offset + HeaderField, HeaderField) = PutUint64(page.valueSize)
    /\ Slice(file, page.offset + HeaderSize, page.keySize) = k
C7_IndexInvariant ==
    (IsOpen /\ Running) =>
        \A k \in DOMAIN pages : EntryMatchesFile(files[f], k, pages[k])

\* C8 (missing key): on an open engine, Get of a key that is not in the index
\* returns the "key not found" error, Exists returns false, and neither call
\* changes the index.
C8_MissingKey ==
    [][ /\ (ret'.op = "Get" /\ IsOpen /\ ret'.key \notin DOMAIN pages) =>
              (ret'.err = "key not found" /\ pages' = pages)
        /\ (ret'.op = "Exists" /\ IsOpen /\ ret'.key \notin DOMAIN pages) =>
              (ret'.value = FALSE /\ pages' = pages)
      ]_vars

\* Get of a missing key on an open engine whose index holds another key.
C8_Witness ==
    /\ ret.op = "Get" /\ ret.err = "key not found"
    /\ IsOpen
    /\ ret.key \notin DOMAIN pages
    /\ DOMAIN pages # {}

\* C9 (truncated trailing record): a new engine opens a file whose bytes go on
\* after its last complete record; Open succeeds, the index holds exactly the
\* keys of the complete records, each entry within the complete part, and the
\* cursor is the offset at which the complete records end.
Truncated(file) == EndOfRecords(file) < Len(file)
C9_TruncatedTail ==
    (ret.op = "Open" /\ nOpens = 1 /\ Truncated(files[f])) =>
        /\ ret.err = "ok"
        /\ DOMAIN pages = {KeyAt(files[f], o) : o \in Range(RecordOffsets(files[f], 0))}
        /\ \A k \in DOMAIN pages :
               pages[k].offset + pages[k].size <= EndOfRecords(files[f])
        /\ lastOffset = EndOfRecords(files[f])

\* A new engine has opened a file of one complete record and a record whose
\* value bytes are cut short.
C9_Witness ==
    /\ ret.op = "Open" /\ ret.err = "ok" /\ nOpens = 1
    /\ Truncated(files[f])
    /\ EndOfRecords(files[f]) > 0
    /\ HeaderAt(files[f], lastOffset)
    /\ ValueLenAt(files[f], lastOffset) > 0
    /\ Len(files[f]) >= lastOffset + HeaderSize + KeyLenAt(files[f], lastOffset)

\* C10 as claimed: the cursor never decreases over the lifetime of an
\* instance, Open included, and is at or beyond the end of every index entry.
C10_Original ==
    /\ [][ret'.op # "New" => lastOffset' >= lastOffset]_vars
    /\ [](\A k \in DOMAIN pages : pages[k].offset + pages[k].size <= lastOffset)

\* C10 (cursor): Insert, failed Insert, Get, Exists, Keys and Close never
\* decrease the cursor; in every state the cursor is at or beyond the end of
\* every record appended and of every index entry set since the last Open.
C10_Cursor ==
    /\ [][ret'.op \notin {"New", "Open"} => lastOffset' >= lastOffset]_vars
    /\ [](/\ sess.appended <= lastOffset
          /\ \A k \in sessKeys :
                 k \in DOMAIN pages /\ pages[k].offset + pages[k].size <= lastOffset)

\* A used instance has opened another file and inserted: the cursor is the
\* end of the new record while an entry of the earlier file is still there.
C10_Witness ==
    /\ ret.op = "Insert" /\ ret.err = "ok"
    /\ nOpens = 2
    /\ sess.appended = lastOffset
    /\ sessKeys # DOMAIN pages

\* C11 (Close is idempotent): Close on an engine that has no open file, never
\* opened or already closed, returns no error and changes neither the index,
\* the cursor nor a file; two Closes in a row after Open both succeed.
C11_CloseIdempotent ==
    [][ (ret'.op = "Close" /\ ~IsOpen) =>
            /\ ret'.err = "ok"
            /\ pages' = pages /\ lastOffset' = lastOffset /\ files' = files
      ]_vars

\* C12 (Open never fails on data shape): Open of a file of any content
\* returns without error and without ending the process, and a new engine
\* stops at the first record it cannot decode: the index holds the keys of
\* the records before it and the cursor is their end.
C12_OpenNeverFails ==
    ret.op = "Open" =>
        /\ ret.err = "ok"
        /\ nOpens = 1 =>
              /\ DOMAIN pages =
                    {KeyAt(files[f], o) : o \in Range(RecordOffsets(files[f], 0))}
              /\ lastOffset = EndOfRecords(files[f])

\* C13 (key listing and membership): on an open engine Keys() returns, each
\* once, exactly the keys that replay at the Open or a successful Insert since
\* has set, and Exists(k) is true exactly for these keys.
C13_KeysAndExists ==
    (IsOpen /\ Running) =>
        /\ \A s \in KeysResults(pages) :
               Range(s) = sessKeys /\ Len(s) = Cardinality(sessKeys)
        /\ \A k \in KeySet : ExistsResult(pages, k) = (k \in sessKeys)

\* C14 (index lifecycle): a newly constructed engine has an empty index; only
\* Open and a successful Insert change the index of an instance; once the
\* engine is closed, Exists is false for every key and Keys() is empty.
C14_IndexLifecycle ==
    /\ [](ret.op = "New" => pages = EmptyIndex)
    /\ [][pages' # pages =>
             \/ ret'.op \in {"New", "Open"}
             \/ ret'.op = "Insert" /\ ret'.err = "ok"]_vars
    /\ []((f # "nil" /\ closed) =>
             /\ \A k \in KeySet : ~ExistsResult(pages, k)
             /\ KeysResults(pages) = {<< >>})

\* C15 (read failure is not not-found): Get of a key that is in the index,
\* with fewer than valueLength bytes in the file from the value offset on,
\* returns the read error and no value.
Available(file, page) == Max(0, Len(file) - ValueOffset(page))
ShortValue(file, page) == Available(file, page) < page.valueSize
C15_ReadError ==
    (/\ ret.op = "Get" /\ IsOpen
     /\ ret.key \in DOMAIN pages
     /\ ShortValue(files[f], pages[ret.key])) =>
        (ret.err = "read failed" /\ ret.value = << >>)

\* Get on an open engine of an indexed key whose value bytes are not all in
\* the file: some are, some are not.
C15_Witness ==
    /\ ret.op = "Get" /\ ret.err = "read failed" /\ IsOpen
    /\ ret.key \in DOMAIN pages
    /\ ShortValue(files[f], pages[ret.key])
    /\ Available(files[f], pages[ret.key]) > 0

\* C16 (Insert step): a successful Insert(k, v) with the cursor at c puts the
\* bytes of the record at c, sets the entry of k to offset c, the two lengths
\* and size 16 + len(k) + len(v), moves the cursor to c + 16 + len(k) + len(v)
\* and leaves the entries of all other keys as they were.
C16_InsertStep ==
    [][ (ret'.op = "Insert" /\ ret'.err = "ok") =>
          LET k == ret'.key
              v == ret'.value
              c == lastOffset
              n == 16 + Len(k) + Len(v)
          IN /\ Len(files'[f]) >= c + n
             /\ Slice(files'[f], c, 8) = PutUint64(Len(k))
             /\ Slice(files'[f], c + 8, 8) = PutUint64(Len(v))
             /\ Slice(files'[f], c + 16, Len(k)) = k
             /\ Slice(files'[f], c + 16 + Len(k), Len(v)) = v
             /\ pages'[k] = [keySize |-> Len(k), valueSize |-> Len(v),
                             offset |-> c, size |-> n]
             /\ lastOffset' = c + n
             /\ DOMAIN pages' = DOMAIN pages \cup {k}
             /\ \A j \in DOMAIN pages \ {k} : pages'[j] = pages[j]
      ]_vars

\* A successful Insert behind an earlier record, with the entry of another
\* key in the index.
C16_Witness ==
    /\ ret.op = "Insert" /\ ret.err = "ok" /\ IsOpen
    /\ pages[ret.key].offset > 0
    /\ lastOffset = pages[ret.key].offset + pages[ret.key].size
    /\ DOMAIN pages # {ret.key}

\* C17 (append-only file): no step changes a byte a file holds below the
\* cursor of before the step; in a session that began on an empty file and
\* had only successful Inserts, each Insert leaves the file as it was with the
\* encoded record key length, value length, key, value put at its end.
C17_AppendOnly ==
    [][ /\ \A name \in FileNames :
              \A i \in 1..lastOffset :
                  i <= Len(files[name]) =>
                      (i <= Len(files'[name]) /\ files'[name][i] = files[name][i])
        /\ (ret'.op = "Insert" /\ ret'.err = "ok" /\ sess.fromEmpty /\ sess.allOk) =>
              files'[f] = files[f] \o PutUint64(Len(ret'.key))
                                   \o PutUint64(Len(ret'.value))
                                   \o ret'.key \o ret'.value
      ]_vars

\* C18 (read operations are observers): Get, with or without an error, Exists
\* and Keys leave the index, the cursor and the files as they are; the file a
\* following Insert would produce and what a following Get would return are
\* the same after the call as before it.
InsertFile(key, value) ==
    WriteAt(files[f], Encode(key, value), WriteOffset(lastOffset, pos))
C18_Observers ==
    [][ ret'.op \in {"Get", "Exists", "Keys"} =>
          /\ pages' = pages /\ lastOffset' = lastOffset /\ files' = files
          /\ IsOpen => \A k \in KeySet, v \in ValueSet :
                           InsertFile(k, v)' = InsertFile(k, v)
          /\ \A k \in KeySet : GetNow(k)' = GetNow(k)
      ]_vars

\* A Get on an open engine has read a value and left the offset of the handle
\* at the end of that value, before the cursor.
C18_Witness ==
    /\ ret.op = "Get" /\ ret.err = "ok" /\ IsOpen
    /\ ret.value # << >>
    /\ pos = ValueOffset(pages[ret.key]) + Len(ret.value)
    /\ pos < lastOffset

\* C19 (recovery after a torn write): a new engine whose session met bytes of
\* an incomplete record, found at Open or left by a failed Insert, is closed;
\* a new engine that opens the same file has exactly the keys the closed
\* engine had and Get returns for every key what it returned before the Close.
C19_TornRecovery ==
    (ret.op = "Open" /\ nOpens = 1 /\ snap.file = f /\ snap.kind = "torn") =>
        /\ ret.err = "ok"
        /\ DOMAIN pages = snap.keys
        /\ \A k \in KeySet : GetNow(k) = snap.get[k]

\* C20 (Open re-establishes the state): after every successful Open, on a new
\* or a used instance, the index holds exactly the keys of the complete
\* records of the file opened and the cursor is the offset at which these
\* records end, 0 for an empty file.
C20_OpenResets ==
    (ret.op = "Open" /\ ret.err = "ok") =>
        /\ lastOffset = EndOfRecords(files[f])
        /\ \A k \in KeySet : (k \in DOMAIN pages) = (OffsetsOf(files[f], k) # {})
        /\ files[f] = << >> => (pages = EmptyIndex /\ lastOffset = 0)

\* The loop taken step by step ends in what loadFromStorage computes: from
\* every state of the loop, the rest of the loop gives the same index, cursor
\* and outcome.
LoopResult ==
    IF ret.err = "running"
    THEN LET r == loadFromStorage(files[f], loopOffset, pages, lastOffset, {})
         IN [pages |-> r.pages, lastOffset |-> r.lastOffset, err |-> r.err]
    ELSE [pages |-> pages, lastOffset |-> lastOffset, err |-> ret.err]
ReplayAgrees == [][LoopResult' = LoopResult]_vars

\* C21 (replay terminates): for every file content the loop of Open ends
\* after finitely many iterations; an iteration that does not end the loop has
\* read a complete record and moves the scan offset on by at least 16 bytes,
\* also over a record with an empty key and an empty value; the loop ends in
\* the iteration that starts at the first offset where the file holds no
\* complete record. The end of the loop is its return or, for a header that
\* declares 2^48 bytes or more, the panic of make().
C21_ReplayTerminates ==
    /\ <>(ret.err # "running")
    /\ [][(ret.err = "running" /\ ret'.err = "running") =>
             /\ CompleteAt(files[f], loopOffset)
             /\ loopOffset' = RecordEnd(files[f], loopOffset)
             /\ loopOffset' >= loopOffset + 16]_vars
    /\ [][(ret.err = "running" /\ ret'.err # "running") =>
             ~CompleteAt(files[f], loopOffset)]_vars

\* The loop has gone over a record with an empty key and an empty value, 16
\* bytes, and has returned at the header of an incomplete record behind it,
\* having read that header in full.
C21_Witness ==
    /\ ret.op = "Open" /\ ret.err = "ok"
    /\ << >> \in DOMAIN pages /\ pages[<< >>].offset = 0 /\ pages[<< >>].size = 16
    /\ lastOffset = 16
    /\ Len(files[f]) > lastOffset
    /\ loopOffset >= lastOffset + HeaderSize

====
